---- MODULE Spec2Model ----
(***************************************************************************)
(* Verification model of the chat relay of boilertemplate_ai:              *)
(*   - SendMessageUseCase (validateInput, execute, executeNonStreaming),   *)
(*   - GeminiGateway (generateStream, generate and the ReadableStream it   *)
(*     builds around the provider's chunk iterator),                       *)
(*   - the consumers' read loops (ChatInterface, ExampleChatComponent).    *)
(* Text is a sequence of one-character strings, so that trim() and string  *)
(* concatenation are computed rather than assumed.                         *)
(***************************************************************************)
EXTENDS Integers, Sequences, FiniteSets, TLC

(***************************************************************************)
(* Bounds of the model.                                                    *)
(***************************************************************************)
MaxMessages == 2
MaxInvocations == 2
MaxChunks == 3

(***************************************************************************)
(* Program constants (gemini.gateway.ts). Temperature and top-p are kept   *)
(* in tenths, so DEFAULT_TEMPERATURE = 0.7 is 7.                           *)
(***************************************************************************)
DEFAULT_MODEL == "gemini-2.0-flash-exp"
DEFAULT_TEMPERATURE == 7
DEFAULT_MAX_TOKENS == 2048

(***************************************************************************)
(* Text.                                                                   *)
(***************************************************************************)
Whitespace == {" "}

RECURSIVE SeqsUpTo(_, _)
SeqsUpTo(S, n) ==
  IF n = 0 THEN {<<>>}
  ELSE LET shorter == SeqsUpTo(S, n - 1)
       IN  shorter \cup {Append(s, x) : s \in {t \in shorter : Len(t) = n - 1}, x \in S}

RECURSIVE TrimStart(_)
TrimStart(s) ==
  IF s = <<>> THEN <<>>
  ELSE IF Head(s) \in Whitespace THEN TrimStart(Tail(s)) ELSE s

RECURSIVE TrimEnd(_)
TrimEnd(s) ==
  IF s = <<>> THEN <<>>
  ELSE IF s[Len(s)] \in Whitespace THEN TrimEnd(SubSeq(s, 1, Len(s) - 1)) ELSE s

\* String.prototype.trim
Trim(s) == TrimEnd(TrimStart(s))

RECURSIVE ConcatAll(_)
ConcatAll(ss) == IF ss = <<>> THEN <<>> ELSE Head(ss) \o ConcatAll(Tail(ss))

(***************************************************************************)
(* Messages (turns) and transcripts.                                       *)
(***************************************************************************)
MessageRole == {"user", "assistant", "system"}
\* Message texts of the model: empty, whitespace only, plain, padded with whitespace.
Contents == {<<>>, <<" ", " ">>, <<"a">>, <<" ", "a", " ">>}

\* The transcripts handed to the use case and the gateway: the i-th message
\* carries the id i, so ids are unique within a transcript.
Transcripts ==
  UNION {[1..n -> [role : MessageRole, content : Contents]] : n \in 0..MaxMessages}

WithIds(t) == [i \in 1..Len(t) |-> [id |-> i, role |-> t[i].role, content |-> t[i].content]]

\* SendMessageInput: messages may be absent at run time (the !input.messages test).
Inputs ==
  {[present |-> FALSE, messages |-> <<>>]}
    \cup {[present |-> TRUE, messages |-> WithIds(t)] : t \in Transcripts}

(***************************************************************************)
(* Errors.                                                                 *)
(***************************************************************************)
NoId == 0
NoError == [message |-> "", id |-> NoId]
Err(msg) == [message |-> msg, id |-> NoId]
ErrId(msg, id) == [message |-> msg, id |-> id]

(***************************************************************************)
(* SendMessageUseCase.validateInput                                        *)
(***************************************************************************)
\* Variant: the test without trim(), so whitespace-only text counts as content.
IsBlankWithoutTrim(content) == content = <<>>

\* !message.content || message.content.trim().length === 0
IsBlank(content) == content = <<>> \/ Len(Trim(content)) = 0

\* Variant: any turn at all satisfies the test.
HasAnyMessage(messages) == Len(messages) > 0

\* Variant: any non-system message counts as a user message.
HasNonSystemMessage(messages) == \E i \in 1..Len(messages) : messages[i].role # "system"

\* input.messages.some(msg => msg.role === 'user')
HasUserMessage(messages) == \E i \in 1..Len(messages) : messages[i].role = "user"

\* Variant: only the last message is examined.
LastIfBlank(messages) ==
  IF messages # <<>> /\ IsBlank(messages[Len(messages)].content) THEN Len(messages) ELSE 0

\* the for..of loop: the first message whose content is blank, 0 when none
FirstBlank(messages) ==
  IF \E i \in 1..Len(messages) : IsBlank(messages[i].content)
  THEN CHOOSE i \in 1..Len(messages) :
         /\ IsBlank(messages[i].content)
         /\ \A j \in 1..(i - 1) : ~ IsBlank(messages[j].content)
  ELSE 0

\* Variant: the emptiness test is missing.
ValidateInputWithoutEmptyTest(in) ==
  IF ~ HasUserMessage(in.messages)
  THEN Err("At least one user message is required")
  ELSE IF FirstBlank(in.messages) # 0
  THEN ErrId("Message with id has empty content", in.messages[FirstBlank(in.messages)].id)
  ELSE NoError

\* The error validateInput throws, NoError when it returns normally.
ValidateInput(in) ==
  IF ~ in.present \/ Len(in.messages) = 0
  THEN Err("Messages array cannot be empty")
  ELSE IF ~ HasUserMessage(in.messages)
  THEN Err("At least one user message is required")
  ELSE IF FirstBlank(in.messages) # 0
  THEN ErrId("Message with id has empty content", in.messages[FirstBlank(in.messages)].id)
  ELSE NoError

(***************************************************************************)
(* AIGenerateOptions: every field optional, the whole bag optional.        *)
(***************************************************************************)
Unset(v) == [set |-> FALSE, value |-> v]
Set(v) == [set |-> TRUE, value |-> v]

NoOptions ==
  [present |-> FALSE, temperature |-> Unset(0), maxTokens |-> Unset(0),
   topP |-> Unset(0), model |-> Unset(""), systemPrompt |-> Unset(<<>>)]

EmptyOptions == [NoOptions EXCEPT !.present = TRUE]

\* The option bags the callers of the relay are given in the model.
OptionsSet ==
  {NoOptions, EmptyOptions,
   [EmptyOptions EXCEPT !.temperature = Set(0), !.systemPrompt = Set(<<"a">>)],
   [present |-> TRUE, temperature |-> Set(0), maxTokens |-> Set(1024),
    topP |-> Set(0), model |-> Set("gemini-pro"), systemPrompt |-> Set(<<>>)]}

\* Variant: the right operand wins whenever it is defined.
CoalesceRightFirst(a, b) == IF b.set THEN b ELSE a

\* a ?? b
Coalesce(a, b) == IF a.set THEN a ELSE b


(***************************************************************************)
(* GeminiGateway: building the upstream request.                           *)
(***************************************************************************)
\* messages.filter(msg => msg.role !== 'system').map(...)
ConvertMessagesToGeminiFormat(messages) ==
  LET kept == SelectSeq(messages, LAMBDA m : m.role # "system")
  IN  [i \in 1..Len(kept) |->
         [role |-> IF kept[i].role = "assistant" THEN "model" ELSE "user",
          text |-> kept[i].content]]

\* messages.find(msg => msg.role === 'system')?.content
ExtractSystemPrompt(messages) ==
  LET sys == SelectSeq(messages, LAMBDA m : m.role = "system")
  IN  IF sys = <<>> THEN Unset(<<>>) ELSE Set(sys[1].content)

\* Variant: the fallbacks are taken with || instead of ??.
ModelConfigWithOr(messages, options) ==
  [model |-> Coalesce(options.model, Set(DEFAULT_MODEL)),
   systemInstruction |-> Coalesce(options.systemPrompt, ExtractSystemPrompt(messages)),
   temperature |-> IF options.temperature.set /\ options.temperature.value # 0
                   THEN options.temperature ELSE Set(DEFAULT_TEMPERATURE),
   maxOutputTokens |-> IF options.maxTokens.set /\ options.maxTokens.value # 0
                       THEN options.maxTokens ELSE Set(DEFAULT_MAX_TOKENS),
   topP |-> options.topP]

\* getGenerativeModel({...}): the model name, system instruction and generation
\* config; a field is Unset when the property passed is undefined
ModelConfig(messages, options) ==
  [model |-> Coalesce(options.model, Set(DEFAULT_MODEL)),
   systemInstruction |-> Coalesce(options.systemPrompt, ExtractSystemPrompt(messages)),
   temperature |-> Coalesce(options.temperature, Set(DEFAULT_TEMPERATURE)),
   maxOutputTokens |-> Coalesce(options.maxTokens, Set(DEFAULT_MAX_TOKENS)),
   topP |-> options.topP]

\* geminiMessages.slice(0, -1)
History(geminiMessages) ==
  IF geminiMessages = <<>> THEN <<>> ELSE SubSeq(geminiMessages, 1, Len(geminiMessages) - 1)

\* The two defensive checks before the provider is called; NoError when both pass.
GatewayCheck(messages) ==
  LET geminiMessages == ConvertMessagesToGeminiFormat(messages)
  IN  IF geminiMessages = <<>> THEN Err("No messages provided")
      ELSE IF geminiMessages[Len(geminiMessages)].text = <<>>
      THEN Err("Message content is empty")
      ELSE NoError

\* What is sent upstream: config, chat history and the prompt of sendMessage(Stream).
NoRequest == [sent |-> FALSE]
UpstreamRequest(messages, options) ==
  LET geminiMessages == ConvertMessagesToGeminiFormat(messages)
  IN  [sent |-> TRUE,
       config |-> ModelConfig(messages, options),
       history |-> History(geminiMessages),
       prompt |-> geminiMessages[Len(geminiMessages)].text]

\* Variant: generate configures the model without the system instruction.
GenerateModelConfigNoSystem(messages, options) ==
  [model |-> Coalesce(options.model, Set(DEFAULT_MODEL)),
   systemInstruction |-> Unset(<<>>),
   temperature |-> Coalesce(options.temperature, Set(DEFAULT_TEMPERATURE)),
   maxOutputTokens |-> Coalesce(options.maxTokens, Set(DEFAULT_MAX_TOKENS)),
   topP |-> options.topP]

\* generate: getGenerativeModel({...})
GenerateModelConfig(messages, options) ==
  [model |-> Coalesce(options.model, Set(DEFAULT_MODEL)),
   systemInstruction |-> Coalesce(options.systemPrompt, ExtractSystemPrompt(messages)),
   temperature |-> Coalesce(options.temperature, Set(DEFAULT_TEMPERATURE)),
   maxOutputTokens |-> Coalesce(options.maxTokens, Set(DEFAULT_MAX_TOKENS)),
   topP |-> options.topP]

\* generate: its two defensive checks; NoError when both pass
GenerateCheck(messages) ==
  LET geminiMessages == ConvertMessagesToGeminiFormat(messages)
      lastMessage == geminiMessages[Len(geminiMessages)]
  IN  IF Len(geminiMessages) = 0 THEN Err("No messages provided")
      ELSE IF Len(lastMessage.text) = 0 THEN Err("Message content is empty")
      ELSE NoError

\* generate: what it sends upstream with sendMessage
GenerateRequest(messages, options) ==
  LET geminiMessages == ConvertMessagesToGeminiFormat(messages)
  IN  [sent |-> TRUE,
       config |-> GenerateModelConfig(messages, options),
       history |-> History(geminiMessages),
       prompt |-> geminiMessages[Len(geminiMessages)].text]

\* The entry points that end in generate rather than generateStream.
NonStreaming == {"executeNonStreaming", "generate"}

\* The check and the request of the gateway method that entry point e ends in.
CheckOf(e, messages) ==
  IF e \in NonStreaming THEN GenerateCheck(messages) ELSE GatewayCheck(messages)
RequestOf(e, messages, options) ==
  IF e \in NonStreaming
  THEN GenerateRequest(messages, options)
  ELSE UpstreamRequest(messages, options)

(***************************************************************************)
(* State of one relay invocation at a time (use case or gateway called     *)
(* directly), and the counters of the stub provider.                       *)
(***************************************************************************)
VARIABLES
  pc,                \* position of the current invocation
  entry,             \* "execute", "executeNonStreaming", "generateStream", "generate"
  input,             \* SendMessageInput of the current invocation
  options,           \* its AIGenerateOptions
  error,             \* the error it rejected with, NoError when none
  result,            \* "none", "stream" or "text": what it resolved with
  request,           \* the request it sent upstream, NoRequest when none
  callsThis,         \* provider calls made by the current invocation
  invocations,       \* invocations started so far
  relayInvocations,  \* gateway invocations (generateStream or generate) so far
  upstreamCalls,     \* provider calls (sendMessageStream or sendMessage) so far
  allValidated       \* every gateway invocation so far was on a validated transcript

(***************************************************************************)
(* State of a chat component, of the stream the relay hands to it and of   *)
(* the provider's reply behind that stream.                                *)
(***************************************************************************)
VARIABLES
  component,          \* "ChatInterface" or "ExampleChatComponent"
  apiKeySet,          \* process.env.GEMINI_API_KEY is set
  messages,           \* the component's transcript (useState)
  inputValue,         \* the text in the input field
  isLoading,          \* the component's isLoading flag
  streamingResponse,  \* ExampleChatComponent's streamingResponse
  hs,                 \* position of handleSubmit: "idle", "calling", "reading"
  newHistory,         \* the transcript captured for the request
  assistantId,        \* id of the placeholder assistant message, NoId when none
  fullContent,        \* the read loop's accumulator
  nextId,             \* source of fresh message ids (crypto.randomUUID)
  actionError,        \* the error the last failure was caught with
  script,             \* the provider's reply: its chunks, and whether it then fails
  srcPos,             \* chunks the relay's loop has taken from the provider
  relayPc,            \* the loop in start(): "none", "running", "done"
  queue,              \* the stream's internal queue
  streamState,        \* "none", "readable", "closed", "errored"
  closeRequested,     \* controller.close() was called
  readPending,        \* a read() of the consumer waits for a chunk
  inbox,              \* the settled read() the consumer has not yet resumed on
  readLog,            \* the fragments the consumer has read, in order
  complete            \* outcome of generate() against the same provider reply

chatVars ==
  <<component, apiKeySet, messages, inputValue, isLoading, streamingResponse, hs,
    newHistory, assistantId, fullContent, nextId, actionError, script, srcPos,
    relayPc, queue, streamState, closeRequested, readPending, inbox, readLog, complete>>

relayVars ==
  <<pc, entry, input, options, error, result, request, callsThis,
    invocations, relayInvocations, upstreamCalls, allValidated>>

(***************************************************************************)
(* State of two gateway calls in flight at once, and of the provider's     *)
(* chat sessions behind them.                                              *)
(***************************************************************************)
VARIABLES
  gatewayOf,   \* gatewayOf[c]: the GeminiGateway instance call c is made on
  calls,       \* calls[c]: the arguments, locals, stream and consumer of call c
  sessions     \* sessions[s]: the provider's reply in chat session s, and how far it was read

pairVars == <<gatewayOf, calls, sessions>>

vars == <<relayVars, chatVars, pairVars>>

UseCaseEntries == {"execute", "executeNonStreaming"}
GatewayEntries == {"generateStream", "generate"}
Streaming == {"execute", "generateStream"}

RelayInit ==
  /\ pc = "idle"
  /\ entry = "execute"
  /\ input = [present |-> FALSE, messages |-> <<>>]
  /\ options = NoOptions
  /\ error = NoError
  /\ result = "none"
  /\ request = NoRequest
  /\ callsThis = 0
  /\ invocations = 0
  /\ relayInvocations = 0
  /\ upstreamCalls = 0
  /\ allValidated = TRUE

\* A caller invokes the use case, or the gateway directly (typed: messages present).
Invoke ==
  /\ pc = "idle"
  /\ invocations < MaxInvocations
  /\ \E e \in UseCaseEntries \cup GatewayEntries, in \in Inputs, o \in OptionsSet :
       /\ e \in GatewayEntries => in.present
       /\ entry' = e
       /\ input' = in
       /\ options' = o
       /\ pc' = IF e \in UseCaseEntries THEN "validate" ELSE "gateway"
  /\ invocations' = invocations + 1
  /\ error' = NoError
  /\ result' = "none"
  /\ request' = NoRequest
  /\ callsThis' = 0
  /\ UNCHANGED <<relayInvocations, upstreamCalls, allValidated>>
  /\ UNCHANGED <<chatVars, pairVars>>

\* Variant: the use case calls the gateway although validation failed.
ValidateFailureIgnored ==
  /\ pc = "validate"
  /\ ValidateInput(input) # NoError
  /\ input.present
  /\ pc' = "gateway"
  /\ UNCHANGED <<entry, input, options, error, result, request, callsThis,
                 invocations, relayInvocations, upstreamCalls, allValidated>>
  /\ UNCHANGED <<chatVars, pairVars>>

\* execute / executeNonStreaming: this.validateInput(input) throws
ValidateThrows ==
  /\ pc = "validate"
  /\ ValidateInput(input) # NoError
  /\ error' = ValidateInput(input)
  /\ pc' = "rejected"
  /\ UNCHANGED <<entry, input, options, result, request, callsThis,
                 invocations, relayInvocations, upstreamCalls, allValidated>>
  /\ UNCHANGED <<chatVars, pairVars>>

\* execute / executeNonStreaming: validation passed, the gateway is called next
ValidatePasses ==
  /\ pc = "validate"
  /\ ValidateInput(input) = NoError
  /\ pc' = "gateway"
  /\ UNCHANGED <<entry, input, options, error, result, request, callsThis,
                 invocations, relayInvocations, upstreamCalls, allValidated>>
  /\ UNCHANGED <<chatVars, pairVars>>

\* generateStream / generate up to the defensive checks: one of them throws
GatewayThrows ==
  /\ pc = "gateway"
  /\ CheckOf(entry, input.messages) # NoError
  /\ relayInvocations' = relayInvocations + 1
  /\ allValidated' = (allValidated /\ ValidateInput(input) = NoError)
  /\ error' = CheckOf(entry, input.messages)
  /\ pc' = "rejected"
  /\ UNCHANGED <<entry, input, options, result, request, callsThis,
                 invocations, upstreamCalls>>
  /\ UNCHANGED <<chatVars, pairVars>>

\* generateStream / generate: the checks pass, the request is ready to be sent
GatewayPrepares ==
  /\ pc = "gateway"
  /\ CheckOf(entry, input.messages) = NoError
  /\ relayInvocations' = relayInvocations + 1
  /\ allValidated' = (allValidated /\ ValidateInput(input) = NoError)
  /\ pc' = "send"
  /\ UNCHANGED <<entry, input, options, error, result, request, callsThis,
                 invocations, upstreamCalls>>
  /\ UNCHANGED <<chatVars, pairVars>>

\* Variant: a result is reused once the provider has been called.
ProviderCallsCached(n) == IF n >= 1 THEN n ELSE n + 1

\* The number of provider calls after one more sendMessageStream / sendMessage.
ProviderCalls(n) == n + 1

\* await chat.sendMessageStream(messageText) / await chat.sendMessage(messageText)
SendResolves ==
  /\ pc = "send"
  /\ request' = RequestOf(entry, input.messages, options)
  /\ upstreamCalls' = ProviderCalls(upstreamCalls)
  /\ callsThis' = ProviderCalls(callsThis)
  /\ result' = IF entry \in Streaming THEN "stream" ELSE "text"
  /\ pc' = "resolved"
  /\ UNCHANGED <<entry, input, options, error, invocations, relayInvocations, allValidated>>
  /\ UNCHANGED <<chatVars, pairVars>>

\* the provider call fails: the awaiting function rejects with the provider's error
SendRejects ==
  /\ pc = "send"
  /\ request' = RequestOf(entry, input.messages, options)
  /\ upstreamCalls' = ProviderCalls(upstreamCalls)
  /\ callsThis' = ProviderCalls(callsThis)
  /\ error' = Err("upstream")
  /\ pc' = "rejected"
  /\ UNCHANGED <<entry, input, options, result, invocations, relayInvocations, allValidated>>
  /\ UNCHANGED <<chatVars, pairVars>>

\* The caller has its answer; the next invocation may start.
Settle ==
  /\ pc \in {"resolved", "rejected"}
  /\ pc' = "idle"
  /\ entry' = "execute"
  /\ input' = [present |-> FALSE, messages |-> <<>>]
  /\ options' = NoOptions
  /\ error' = NoError
  /\ result' = "none"
  /\ request' = NoRequest
  /\ callsThis' = 0
  /\ UNCHANGED <<invocations, relayInvocations, upstreamCalls, allValidated>>
  /\ UNCHANGED <<chatVars, pairVars>>

(***************************************************************************)
(* The provider's replies. A reply is the chunks its stream yields and     *)
(* whether the stream then fails; a provider that is deterministic gives   *)
(* sendMessage the text of the same chunks.                                *)
(***************************************************************************)
Hel == <<"H", "e", "l">>
Lo == <<"l", "o">>
World == <<" ", "w", "o", "r", "l", "d">>
Fragments == {<<>>, Hel, Lo}

Scripts ==
  {[chunks |-> c, fails |-> f] :
     c \in SeqsUpTo(Fragments, MaxChunks) \cup {<<Hel, Lo, World>>}, f \in BOOLEAN}

NoScript == [chunks |-> <<>>, fails |-> FALSE]

\* result.response.text(): the whole reply
ResponseText(chunks) == ConcatAll(chunks)

(***************************************************************************)
(* The server actions up to the provider call.                             *)
(***************************************************************************)
\* SendMessageInputSchema.parse(input): the issues Zod reports, in order
ZodIssues(msgs) ==
  IF Len(msgs) = 0 THEN <<"At least one message is required">>
  ELSE LET empty == SelectSeq(msgs, LAMBDA m : Len(m.content) = 0)
       IN  [i \in 1..Len(empty) |-> "Message content cannot be empty"]

\* The z.ZodError that parse throws, NoError when the input conforms.
ZodParseError(msgs) ==
  IF ZodIssues(msgs) = <<>> THEN NoError
  ELSE [message |-> "ZodError", id |-> NoId, issues |-> ZodIssues(msgs)]

\* error instanceof z.ZodError
IsZodError(e) == "issues" \in DOMAIN e

\* issues.join(', ')
RECURSIVE JoinIssues(_)
JoinIssues(issues) ==
  IF Len(issues) = 0 THEN ""
  ELSE IF Len(issues) = 1 THEN issues[1]
  ELSE issues[1] \o ", " \o JoinIssues(Tail(issues))

\* Variant: the catch block wraps every error as a validation error.
RethrownWrapped(e) ==
  IF IsZodError(e)
  THEN Err("Validation error: " \o JoinIssues(e.issues))
  ELSE Err("Validation error: " \o e.message)

\* The catch block of both actions: what is thrown on for the error caught.
Rethrown(e) ==
  IF IsZodError(e)
  THEN Err("Validation error: " \o JoinIssues(e.issues))
  ELSE e

\* process.env.GEMINI_API_KEY as the constructor reads it
EnvKey(key) == IF key THEN Set(<<"k">>) ELSE Unset(<<>>)

\* Variant: the constructor does not test the key.
ConstructorAcceptsAnyKey(apiKey, env) == NoError

\* new GeminiGateway(apiKey) / GeminiClientFactory.create(apiKey): the error thrown
\* when apiKey ?? process.env.GEMINI_API_KEY is missing or empty, NoError otherwise
ConstructorError(apiKey, env) ==
  LET key == Coalesce(apiKey, env)
  IN  IF ~ key.set \/ key.value = <<>>
      THEN Err("GEMINI_API_KEY is not set")
      ELSE NoError

\* The two server actions and the use-case method each of them calls.
ActionEntries == {"sendMessageAction", "sendMessageCompleteAction"}
UseCaseOf(a) == IF a = "sendMessageAction" THEN "execute" ELSE "executeNonStreaming"

\* The error thrown inside the try block of action a before the provider is
\* called, NoError when it gets as far as the provider call.
TryError(a, msgs, key) ==
  IF ZodParseError(msgs) # NoError THEN ZodParseError(msgs)
  ELSE IF ConstructorError(Unset(<<>>), EnvKey(key)) # NoError
  THEN ConstructorError(Unset(<<>>), EnvKey(key))
  ELSE IF ValidateInput([present |-> TRUE, messages |-> msgs]) # NoError
  THEN ValidateInput([present |-> TRUE, messages |-> msgs])
  ELSE CheckOf(UseCaseOf(a), msgs)

\* The error sendMessageAction rejects with before the provider is called,
\* NoError when it gets as far as sendMessageStream.
ActionError(msgs, key) == Rethrown(TryError("sendMessageAction", msgs, key))

\* The options each component passes.
ComponentOptions(c) ==
  IF c = "ChatInterface"
  THEN [EmptyOptions EXCEPT !.model = Set("gemini-2.0-flash-exp"), !.temperature = Set(7)]
  ELSE [EmptyOptions EXCEPT !.temperature = Set(7), !.maxTokens = Set(2048)]

\* createChatMessage(role, content) with a fresh id
CreateChatMessage(id, role, content) == [id |-> id, role |-> role, content |-> content]

\* 'Error: Failed to get response from AI.' (abbreviated)
ErrorNotice == <<"E", "r", "r", "o", "r">>

\* Variant: the pending assistant turn is turned into the error notice.
ReplacePendingWithError(prev, id) ==
  IF prev = <<>> THEN <<CreateChatMessage(id, "system", ErrorNotice)>>
  ELSE [prev EXCEPT ![Len(prev)] = CreateChatMessage(id, "system", ErrorNotice)]

\* ChatInterface's catch block: setMessages((prev) => [...prev, createChatMessage('system', ...)])
AppendErrorNotice(prev, id) == Append(prev, CreateChatMessage(id, "system", ErrorNotice))

Components == {"ChatInterface", "ExampleChatComponent"}

\* What the user may have typed: nothing, whitespace, text, text after whitespace.
UserInputs == {<<>>, <<" ">>, <<"a">>, <<" ", "a">>}

\* The transcript before the submission: empty, or one earlier exchange.
InitialHistories ==
  {<<>>,
   <<CreateChatMessage(1, "user", <<"a">>), CreateChatMessage(2, "assistant", <<"a">>)>>}

NoRead == [kind |-> "none", value |-> <<>>]
ReadValue(v) == [kind |-> "value", value |-> v]
ReadDone == [kind |-> "done", value |-> <<>>]
ReadError == [kind |-> "error", value |-> <<>>]

NotCompleted == [state |-> "none", text |-> <<>>]

(***************************************************************************)
(* The ReadableStream of generateStream.                                   *)
(***************************************************************************)
\* Variant: only chunks longer than two characters are passed on.
LongChunkIsEnqueued(text) == Len(text) > 2

\* if (text) controller.enqueue(text)
ChunkIsEnqueued(text) == text # <<>>

\* Variant: a chunk is put in front of the queue.
EnqueueInFront(q, text) == <<text>> \o q

\* controller.enqueue(text) with no read waiting: the chunk joins the queue
Enqueue(q, text) == Append(q, text)

\* controller.error(error) resets the stream's queue
QueueAfterError(q) == <<>>

\* Variant: the fragment replaces what was read before.
AccumulateLast(full, value) == value

\* fullContent += value
Accumulate(full, value) == full \o value

\* Variant: every fragment adds a turn instead of replacing the last one's text.
UpdateAppendsMessage(prev, id, content) ==
  Append(prev, [role |-> "assistant", content |-> content, id |-> id])

\* setMessages((prev) => ...): the last message gets the accumulated content when
\* it is the assistant message created for this submission
UpdateLastMessage(prev, id, content) ==
  IF prev # <<>> /\ prev[Len(prev)].id = id
  THEN [prev EXCEPT ![Len(prev)].content = content]
  ELSE prev

\* Variant: handleSubmit does not test the input for being blank.
SubmitBlankToo ==
  /\ component = "ChatInterface"
  /\ hs = "idle"
  /\ ~ isLoading
  /\ inputValue' = <<>>
  /\ isLoading' = TRUE
  /\ newHistory' = Append(messages, CreateChatMessage(nextId, "user", Trim(inputValue)))
  /\ assistantId' = nextId + 1
  /\ messages' = Append(newHistory', CreateChatMessage(nextId + 1, "assistant", <<>>))
  /\ nextId' = nextId + 2
  /\ fullContent' = <<>>
  /\ hs' = "calling"
  /\ UNCHANGED <<pairVars, pc, entry, input, options, error, result, request, callsThis,
                 invocations, relayInvocations, upstreamCalls, allValidated, component,
                 apiKeySet, streamingResponse, actionError, script, srcPos, relayPc,
                 queue, streamState, closeRequested, readPending, inbox, readLog,
                 complete>>

\* ChatInterface.handleSubmit up to the await of sendMessageAction
SubmitChatInterface ==
  /\ component = "ChatInterface"
  /\ hs = "idle"
  /\ Trim(inputValue) # <<>> /\ ~ isLoading
  /\ inputValue' = <<>>
  /\ isLoading' = TRUE
  /\ newHistory' = Append(messages, CreateChatMessage(nextId, "user", Trim(inputValue)))
  /\ assistantId' = nextId + 1
  /\ messages' = Append(newHistory', CreateChatMessage(nextId + 1, "assistant", <<>>))
  /\ nextId' = nextId + 2
  /\ fullContent' = <<>>
  /\ hs' = "calling"
  /\ UNCHANGED <<pairVars, pc, entry, input, options, error, result, request, callsThis,
                 invocations, relayInvocations, upstreamCalls, allValidated, component,
                 apiKeySet, streamingResponse, actionError, script, srcPos, relayPc,
                 queue, streamState, closeRequested, readPending, inbox, readLog,
                 complete>>

\* ExampleChatComponent.handleSubmit up to the await of sendMessageAction
SubmitExample ==
  /\ component = "ExampleChatComponent"
  /\ hs = "idle"
  /\ Trim(inputValue) # <<>>
  /\ isLoading' = TRUE
  /\ streamingResponse' = <<>>
  /\ newHistory' = Append(messages, CreateChatMessage(nextId, "user", inputValue))
  /\ messages' = newHistory'
  /\ inputValue' = <<>>
  /\ nextId' = nextId + 1
  /\ fullContent' = <<>>
  /\ hs' = "calling"
  /\ UNCHANGED <<pairVars, pc, entry, input, options, error, result, request, callsThis,
                 invocations, relayInvocations, upstreamCalls, allValidated, component,
                 apiKeySet, assistantId, actionError, script, srcPos, relayPc, queue,
                 streamState, closeRequested, readPending, inbox, readLog, complete>>

\* handleSubmit returns at its guard: blank input, or ChatInterface is loading
SubmitIgnored ==
  /\ Trim(inputValue) = <<>> \/ (component = "ChatInterface" /\ isLoading)
  /\ UNCHANGED <<pairVars, pc, entry, input, options, error, result, request, callsThis,
                 invocations, relayInvocations, upstreamCalls, allValidated, component,
                 apiKeySet, messages, inputValue, isLoading, streamingResponse, hs,
                 newHistory, assistantId, fullContent, nextId, actionError, script,
                 srcPos, relayPc, queue, streamState, closeRequested, readPending, inbox,
                 readLog, complete>>

\* sendMessageAction rejects before the provider is called; catch and finally run
ActionFailsEarly ==
  /\ hs = "calling"
  /\ ActionError(newHistory, apiKeySet) # NoError
  /\ actionError' = ActionError(newHistory, apiKeySet)
  /\ messages' = IF component = "ChatInterface"
                 THEN AppendErrorNotice(messages, nextId)
                 ELSE messages
  /\ nextId' = IF component = "ChatInterface" THEN nextId + 1 ELSE nextId
  /\ isLoading' = FALSE
  /\ hs' = "idle"
  /\ UNCHANGED <<pairVars, pc, entry, input, options, error, result, request, callsThis,
                 invocations, relayInvocations, upstreamCalls, allValidated, component,
                 apiKeySet, inputValue, streamingResponse, newHistory, assistantId,
                 fullContent, script, srcPos, relayPc, queue, streamState,
                 closeRequested, readPending, inbox, readLog, complete>>

\* chat.sendMessageStream rejects, so sendMessageAction rejects; catch and finally run
ActionCallRejected ==
  /\ hs = "calling"
  /\ ActionError(newHistory, apiKeySet) = NoError
  /\ request' = UpstreamRequest(newHistory, ComponentOptions(component))
  /\ upstreamCalls' = ProviderCalls(upstreamCalls)
  /\ actionError' = Err("upstream")
  /\ messages' = IF component = "ChatInterface"
                 THEN AppendErrorNotice(messages, nextId)
                 ELSE messages
  /\ nextId' = IF component = "ChatInterface" THEN nextId + 1 ELSE nextId
  /\ isLoading' = FALSE
  /\ hs' = "idle"
  /\ UNCHANGED <<pairVars, pc, entry, input, options, error, result, callsThis, invocations,
                 relayInvocations, allValidated, component, apiKeySet, inputValue,
                 streamingResponse, newHistory, assistantId, fullContent, script, srcPos,
                 relayPc, queue, streamState, closeRequested, readPending, inbox,
                 readLog, complete>>

\* sendMessageAction resolves with the stream; start() has begun its loop;
\* the component calls stream.getReader()
ActionResolves ==
  /\ hs = "calling"
  /\ ActionError(newHistory, apiKeySet) = NoError
  /\ request' = UpstreamRequest(newHistory, ComponentOptions(component))
  /\ upstreamCalls' = ProviderCalls(upstreamCalls)
  /\ \E sc \in Scripts : script' = sc
  /\ srcPos' = 0
  /\ relayPc' = "running"
  /\ queue' = <<>>
  /\ streamState' = "readable"
  /\ closeRequested' = FALSE
  /\ hs' = "reading"
  /\ UNCHANGED <<pairVars, pc, entry, input, options, error, result, callsThis, invocations,
                 relayInvocations, allValidated, component, apiKeySet, messages,
                 inputValue, isLoading, streamingResponse, newHistory, assistantId,
                 fullContent, nextId, actionError, readPending, inbox, readLog, complete>>

\* start(): one turn of 'for await (const chunk of result.stream)'
RelayTakesChunk ==
  /\ relayPc = "running"
  /\ srcPos < Len(script.chunks)
  /\ srcPos' = srcPos + 1
  /\ LET text == script.chunks[srcPos + 1]
     IN  IF ~ ChunkIsEnqueued(text)
         THEN UNCHANGED <<queue, inbox, readPending>>
         ELSE IF readPending
         THEN inbox' = ReadValue(text) /\ readPending' = FALSE /\ UNCHANGED queue
         ELSE queue' = Enqueue(queue, text) /\ UNCHANGED <<inbox, readPending>>
  /\ UNCHANGED <<pairVars, pc, entry, input, options, error, result, request, callsThis,
                 invocations, relayInvocations, upstreamCalls, allValidated, component,
                 apiKeySet, messages, inputValue, isLoading, streamingResponse, hs,
                 newHistory, assistantId, fullContent, nextId, actionError, script,
                 relayPc, streamState, closeRequested, readLog, complete>>

\* Variant: controller.close() sits in a finally block and also runs on failure.
RelayClosesInFinally ==
  /\ relayPc = "running"
  /\ srcPos = Len(script.chunks)
  /\ ~ closeRequested
  /\ relayPc' = IF script.fails THEN "running" ELSE "done"
  /\ closeRequested' = TRUE
  /\ streamState' = IF queue = <<>> THEN "closed" ELSE streamState
  /\ inbox' = IF readPending THEN ReadDone ELSE inbox
  /\ readPending' = FALSE
  /\ UNCHANGED <<pairVars, pc, entry, input, options, error, result, request, callsThis,
                 invocations, relayInvocations, upstreamCalls, allValidated, component,
                 apiKeySet, messages, inputValue, isLoading, streamingResponse, hs,
                 newHistory, assistantId, fullContent, nextId, actionError, script,
                 srcPos, queue, readLog, complete>>

\* start(): the provider's stream is exhausted, controller.close()
RelayCloses ==
  /\ relayPc = "running"
  /\ srcPos = Len(script.chunks)
  /\ ~ script.fails
  /\ relayPc' = "done"
  /\ closeRequested' = TRUE
  /\ streamState' = IF queue = <<>> THEN "closed" ELSE streamState
  /\ inbox' = IF readPending THEN ReadDone ELSE inbox
  /\ readPending' = FALSE
  /\ UNCHANGED <<pairVars, pc, entry, input, options, error, result, request, callsThis,
                 invocations, relayInvocations, upstreamCalls, allValidated, component,
                 apiKeySet, messages, inputValue, isLoading, streamingResponse, hs,
                 newHistory, assistantId, fullContent, nextId, actionError, script,
                 srcPos, queue, readLog, complete>>

\* Variant: the catch block closes the stream instead of erroring it.
RelayErrorSwallowed ==
  /\ relayPc = "running"
  /\ srcPos = Len(script.chunks)
  /\ script.fails
  /\ relayPc' = "done"
  /\ closeRequested' = TRUE
  /\ streamState' = IF queue = <<>> THEN "closed" ELSE streamState
  /\ inbox' = IF readPending THEN ReadDone ELSE inbox
  /\ readPending' = FALSE
  /\ UNCHANGED <<pairVars, pc, entry, input, options, error, result, request, callsThis,
                 invocations, relayInvocations, upstreamCalls, allValidated, component,
                 apiKeySet, messages, inputValue, isLoading, streamingResponse, hs,
                 newHistory, assistantId, fullContent, nextId, actionError, script,
                 srcPos, queue, readLog, complete>>

\* start(): the provider's stream throws, controller.error(error)
RelayErrors ==
  /\ relayPc = "running"
  /\ srcPos = Len(script.chunks)
  /\ script.fails
  /\ relayPc' = "done"
  /\ queue' = QueueAfterError(queue)
  /\ streamState' = "errored"
  /\ inbox' = IF readPending THEN ReadError ELSE inbox
  /\ readPending' = FALSE
  /\ UNCHANGED <<pairVars, pc, entry, input, options, error, result, request, callsThis,
                 invocations, relayInvocations, upstreamCalls, allValidated, component,
                 apiKeySet, messages, inputValue, isLoading, streamingResponse, hs,
                 newHistory, assistantId, fullContent, nextId, actionError, script,
                 srcPos, closeRequested, readLog, complete>>

\* the read loop calls reader.read()
ConsumerReads ==
  /\ hs = "reading"
  /\ inbox = NoRead /\ ~ readPending
  /\ IF queue # <<>>
     THEN /\ inbox' = ReadValue(Head(queue))
          /\ queue' = Tail(queue)
          /\ streamState' = IF closeRequested /\ Tail(queue) = <<>> THEN "closed" ELSE streamState
          /\ UNCHANGED readPending
     ELSE IF streamState = "closed"
     THEN inbox' = ReadDone /\ UNCHANGED <<queue, streamState, readPending>>
     ELSE IF streamState = "errored"
     THEN inbox' = ReadError /\ UNCHANGED <<queue, streamState, readPending>>
     ELSE readPending' = TRUE /\ UNCHANGED <<queue, streamState, inbox>>
  /\ UNCHANGED <<pairVars, pc, entry, input, options, error, result, request, callsThis,
                 invocations, relayInvocations, upstreamCalls, allValidated, component,
                 apiKeySet, messages, inputValue, isLoading, streamingResponse, hs,
                 newHistory, assistantId, fullContent, nextId, actionError, script,
                 srcPos, relayPc, closeRequested, readLog, complete>>

\* the read resolved with a value: accumulate it and show the accumulated text
ConsumerTakesFragment ==
  /\ hs = "reading"
  /\ inbox.kind = "value"
  /\ inbox' = NoRead
  /\ fullContent' = Accumulate(fullContent, inbox.value)
  /\ readLog' = Append(readLog, inbox.value)
  /\ messages' = IF component = "ChatInterface"
                 THEN UpdateLastMessage(messages, assistantId, fullContent')
                 ELSE messages
  /\ streamingResponse' = IF component = "ExampleChatComponent"
                          THEN fullContent'
                          ELSE streamingResponse
  /\ UNCHANGED <<pairVars, pc, entry, input, options, error, result, request, callsThis,
                 invocations, relayInvocations, upstreamCalls, allValidated, component,
                 apiKeySet, inputValue, isLoading, hs, newHistory, assistantId, nextId,
                 actionError, script, srcPos, relayPc, queue, streamState,
                 closeRequested, readPending, complete>>

\* the read resolved with done: leave the loop; finally runs
ConsumerFinishes ==
  /\ hs = "reading"
  /\ inbox.kind = "done"
  /\ inbox' = NoRead
  /\ messages' = IF component = "ExampleChatComponent"
                 THEN Append(newHistory, CreateChatMessage(nextId, "assistant", fullContent))
                 ELSE messages
  /\ nextId' = IF component = "ExampleChatComponent" THEN nextId + 1 ELSE nextId
  /\ streamingResponse' = <<>>
  /\ isLoading' = FALSE
  /\ hs' = "idle"
  /\ UNCHANGED <<pairVars, pc, entry, input, options, error, result, request, callsThis,
                 invocations, relayInvocations, upstreamCalls, allValidated, component,
                 apiKeySet, inputValue, newHistory, assistantId, fullContent,
                 actionError, script, srcPos, relayPc, queue, streamState,
                 closeRequested, readPending, readLog, complete>>

\* Variant: the read rejected and there is no finally block.
ConsumerCatchesWithoutFinally ==
  /\ hs = "reading"
  /\ inbox.kind = "error"
  /\ inbox' = NoRead
  /\ actionError' = Err("upstream")
  /\ messages' = IF component = "ChatInterface"
                 THEN AppendErrorNotice(messages, nextId)
                 ELSE messages
  /\ nextId' = IF component = "ChatInterface" THEN nextId + 1 ELSE nextId
  /\ hs' = "idle"
  /\ UNCHANGED <<pairVars, pc, entry, input, options, error, result, request, callsThis,
                 invocations, relayInvocations, upstreamCalls, allValidated, component,
                 apiKeySet, inputValue, isLoading, streamingResponse, newHistory,
                 assistantId, fullContent, script, srcPos, relayPc, queue, streamState,
                 closeRequested, readPending, readLog, complete>>

\* the read rejected: catch and finally run
ConsumerCatches ==
  /\ hs = "reading"
  /\ inbox.kind = "error"
  /\ inbox' = NoRead
  /\ actionError' = Err("upstream")
  /\ messages' = IF component = "ChatInterface"
                 THEN AppendErrorNotice(messages, nextId)
                 ELSE messages
  /\ nextId' = IF component = "ChatInterface" THEN nextId + 1 ELSE nextId
  /\ isLoading' = FALSE
  /\ hs' = "idle"
  /\ UNCHANGED <<pairVars, pc, entry, input, options, error, result, request, callsThis,
                 invocations, relayInvocations, upstreamCalls, allValidated, component,
                 apiKeySet, inputValue, streamingResponse, newHistory, assistantId,
                 fullContent, script, srcPos, relayPc, queue, streamState,
                 closeRequested, readPending, readLog, complete>>

\* generate() for the same transcript and options, the provider replying as
\* before: sendMessage resolves and response.text() is returned
GenerateResolves ==
  /\ hs = "idle"
  /\ streamState \in {"closed", "errored"}
  /\ complete = NotCompleted
  /\ ~ script.fails
  /\ upstreamCalls' = ProviderCalls(upstreamCalls)
  /\ complete' = [state |-> "text", text |-> ResponseText(script.chunks)]
  /\ UNCHANGED <<pairVars, pc, entry, input, options, error, result, request, callsThis,
                 invocations, relayInvocations, allValidated, component, apiKeySet,
                 messages, inputValue, isLoading, streamingResponse, hs, newHistory,
                 assistantId, fullContent, nextId, actionError, script, srcPos, relayPc,
                 queue, streamState, closeRequested, readPending, inbox, readLog>>

\* generate() for the same transcript and options: the provider fails as before
GenerateRejects ==
  /\ hs = "idle"
  /\ streamState \in {"closed", "errored"}
  /\ complete = NotCompleted
  /\ script.fails
  /\ upstreamCalls' = ProviderCalls(upstreamCalls)
  /\ complete' = [state |-> "rejected", text |-> <<>>]
  /\ UNCHANGED <<pairVars, pc, entry, input, options, error, result, request, callsThis,
                 invocations, relayInvocations, allValidated, component, apiKeySet,
                 messages, inputValue, isLoading, streamingResponse, hs, newHistory,
                 assistantId, fullContent, nextId, actionError, script, srcPos, relayPc,
                 queue, streamState, closeRequested, readPending, inbox, readLog>>

\* The two calls, told apart by their index.
Calls == {1, 2}

\* A call that has not been made yet.
NewCall ==
  [pc |-> "idle", kind |-> "generateStream", messages |-> <<>>, options |-> NoOptions,
   request |-> NoRequest, reply |-> NoScript, chat |-> 0, relayPc |-> "none",
   queue |-> <<>>, streamState |-> "none", closeRequested |-> FALSE,
   readPending |-> FALSE, inbox |-> NoRead, out |-> <<>>, text |-> <<>>]

NoSession == [script |-> NoScript, pos |-> 0]

\* The variables of the two concurrent calls while they are not exercised.
PairUnused ==
  /\ gatewayOf = [c \in Calls |-> c]
  /\ calls = [c \in Calls |-> NewCall]
  /\ sessions = [s \in Calls |-> NoSession]

\* The chat variables while only the relay is exercised.
ChatUnused ==
  /\ component = "ChatInterface"
  /\ apiKeySet = TRUE
  /\ messages = <<>>
  /\ inputValue = <<>>
  /\ isLoading = FALSE
  /\ streamingResponse = <<>>
  /\ hs = "idle"
  /\ newHistory = <<>>
  /\ assistantId = NoId
  /\ fullContent = <<>>
  /\ nextId = 1
  /\ actionError = NoError
  /\ script = NoScript
  /\ srcPos = 0
  /\ relayPc = "none"
  /\ queue = <<>>
  /\ streamState = "none"
  /\ closeRequested = FALSE
  /\ readPending = FALSE
  /\ inbox = NoRead
  /\ readLog = <<>>
  /\ complete = NotCompleted

\* A freshly mounted component with something typed, possibly after an earlier exchange.
ChatInit ==
  /\ component \in Components
  /\ apiKeySet \in BOOLEAN
  /\ messages \in InitialHistories
  /\ inputValue \in UserInputs
  /\ isLoading = FALSE
  /\ streamingResponse = <<>>
  /\ hs = "idle"
  /\ newHistory = <<>>
  /\ assistantId = NoId
  /\ fullContent = <<>>
  /\ nextId = Len(messages) + 1
  /\ actionError = NoError
  /\ script = NoScript
  /\ srcPos = 0
  /\ relayPc = "none"
  /\ queue = <<>>
  /\ streamState = "none"
  /\ closeRequested = FALSE
  /\ readPending = FALSE
  /\ inbox = NoRead
  /\ readLog = <<>>
  /\ complete = NotCompleted

StreamInit == RelayInit /\ ChatInit /\ PairUnused

StreamNext ==
  \/ SubmitChatInterface
  \/ SubmitExample
  \/ SubmitIgnored
  \/ ActionFailsEarly
  \/ ActionCallRejected
  \/ ActionResolves
  \/ RelayTakesChunk
  \/ RelayCloses
  \/ RelayErrors
  \/ ConsumerReads
  \/ ConsumerTakesFragment
  \/ ConsumerFinishes
  \/ ConsumerCatches
  \/ GenerateResolves
  \/ GenerateRejects

\* One submission of a chat component, its stream and its consumer.
StreamSpec == StreamInit /\ [][StreamNext]_vars

\* The same, where a pending action call settles, the relay's loop runs on
\* while the provider's stream yields, ends or throws, and the component's
\* read loop runs on.
FairStreamSpec ==
  /\ StreamSpec
  /\ WF_vars(ActionFailsEarly \/ ActionCallRejected \/ ActionResolves)
  /\ WF_vars(RelayTakesChunk \/ RelayCloses \/ RelayErrors)
  /\ WF_vars(ConsumerReads)
  /\ WF_vars(ConsumerTakesFragment \/ ConsumerFinishes \/ ConsumerCatches)

(***************************************************************************)
(* Several submissions to ChatInterface, one after the other.              *)
(***************************************************************************)
MaxSubmissions == 2

\* The provider's replies in a session: one fragment, two, nothing at all, a
\* fragment and then a failure.
SessionScripts ==
  {[chunks |-> <<Hel>>, fails |-> FALSE],
   [chunks |-> <<Hel, Lo>>, fails |-> FALSE],
   [chunks |-> <<>>, fails |-> FALSE],
   [chunks |-> <<Hel>>, fails |-> TRUE]}

\* The submissions made so far: every one added a user turn.
Submitted(msgs) == Len(SelectSeq(msgs, LAMBDA m : m.role = "user"))

\* onChange of the textarea, which is disabled while isLoading
Type ==
  /\ ~ isLoading
  /\ Submitted(messages) < MaxSubmissions
  /\ \E text \in UserInputs : inputValue' = text
  /\ UNCHANGED <<pairVars, pc, entry, input, options, error, result, request, callsThis,
                 invocations, relayInvocations, upstreamCalls, allValidated, component,
                 apiKeySet, messages, isLoading, streamingResponse, hs, newHistory,
                 assistantId, fullContent, nextId, actionError, script, srcPos, relayPc,
                 queue, streamState, closeRequested, readPending, inbox, readLog,
                 complete>>

\* sendMessageAction resolves with the stream of this submission
SessionActionResolves ==
  /\ hs = "calling"
  /\ ActionError(newHistory, apiKeySet) = NoError
  /\ request' = UpstreamRequest(newHistory, ComponentOptions(component))
  /\ upstreamCalls' = ProviderCalls(upstreamCalls)
  /\ \E sc \in SessionScripts : script' = sc
  /\ srcPos' = 0
  /\ relayPc' = "running"
  /\ queue' = <<>>
  /\ streamState' = "readable"
  /\ closeRequested' = FALSE
  /\ readLog' = <<>>
  /\ hs' = "reading"
  /\ UNCHANGED <<pairVars, pc, entry, input, options, error, result, callsThis, invocations,
                 relayInvocations, allValidated, component, apiKeySet, messages,
                 inputValue, isLoading, streamingResponse, newHistory, assistantId,
                 fullContent, nextId, actionError, readPending, inbox, complete>>

\* A freshly mounted ChatInterface with something typed.
SessionInit ==
  /\ RelayInit /\ PairUnused
  /\ component = "ChatInterface"
  /\ apiKeySet \in BOOLEAN
  /\ messages = <<>>
  /\ inputValue \in UserInputs
  /\ isLoading = FALSE
  /\ streamingResponse = <<>>
  /\ hs = "idle"
  /\ newHistory = <<>>
  /\ assistantId = NoId
  /\ fullContent = <<>>
  /\ nextId = 1
  /\ actionError = NoError
  /\ script = NoScript
  /\ srcPos = 0
  /\ relayPc = "none"
  /\ queue = <<>>
  /\ streamState = "none"
  /\ closeRequested = FALSE
  /\ readPending = FALSE
  /\ inbox = NoRead
  /\ readLog = <<>>
  /\ complete = NotCompleted

SessionNext ==
  \/ Type
  \/ SubmitChatInterface
  \/ SubmitIgnored
  \/ ActionFailsEarly
  \/ ActionCallRejected
  \/ SessionActionResolves
  \/ RelayTakesChunk
  \/ RelayCloses
  \/ RelayErrors
  \/ ConsumerReads
  \/ ConsumerTakesFragment
  \/ ConsumerFinishes
  \/ ConsumerCatches

SessionSpec == SessionInit /\ [][SessionNext]_vars

Init == RelayInit /\ ChatUnused /\ PairUnused

Next ==
  \/ Invoke
  \/ ValidateThrows
  \/ ValidatePasses
  \/ GatewayThrows
  \/ GatewayPrepares
  \/ SendResolves
  \/ SendRejects
  \/ Settle

Spec == Init /\ [][Next]_vars

(***************************************************************************)
(* Two calls of generateStream or generate in flight at once, on the same  *)
(* gateway instance or on two.                                             *)
(***************************************************************************)
\* The arguments the two calls are made with.
PairArguments ==
  {[messages |-> <<CreateChatMessage(1, "user", <<"a">>)>>, options |-> NoOptions],
   [messages |-> <<CreateChatMessage(1, "system", <<"a">>),
                   CreateChatMessage(2, "user", <<" ", "a", " ">>)>>,
    options |-> [EmptyOptions EXCEPT !.temperature = Set(0)]]}

\* The provider's replies to them.
PairScripts ==
  {[chunks |-> <<Hel, <<>>, Lo>>, fails |-> FALSE],
   [chunks |-> <<World>>, fails |-> FALSE],
   [chunks |-> <<Lo, Hel>>, fails |-> TRUE]}

\* Variant: a gateway keeps one chat session and every call on it uses that one.
StartChatPerGateway(c, g) == g

\* model.startChat({history}): a new chat session for every call
StartChat(c, g) == c

\* generateStream / generate up to the return of sendMessageStream / the await
\* of sendMessage: the request is built and sent in a chat session of its own
PairCalls(c) ==
  /\ calls[c].pc = "idle"
  /\ \E k \in GatewayEntries, a \in PairArguments, sc \in PairScripts :
       LET chat == StartChat(c, gatewayOf[c])
           streaming == k = "generateStream"
       IN  /\ GatewayCheck(a.messages) = NoError
           /\ sessions' = [sessions EXCEPT ![chat] = [script |-> sc, pos |-> 0]]
           /\ calls' = [calls EXCEPT ![c] =
                [@ EXCEPT !.pc = IF streaming THEN "streaming" ELSE "awaiting",
                          !.kind = k,
                          !.messages = a.messages,
                          !.options = a.options,
                          !.request = UpstreamRequest(a.messages, a.options),
                          !.reply = sc,
                          !.chat = chat,
                          !.relayPc = IF streaming THEN "running" ELSE "none",
                          !.streamState = IF streaming THEN "readable" ELSE "none"]]
  /\ UNCHANGED <<relayVars, chatVars, gatewayOf>>

\* start() of call c: one turn of 'for await (const chunk of result.stream)'
PairRelayTakesChunk(c) ==
  LET s == sessions[calls[c].chat]
  IN  /\ calls[c].relayPc = "running"
      /\ s.pos < Len(s.script.chunks)
      /\ sessions' = [sessions EXCEPT ![calls[c].chat].pos = s.pos + 1]
      /\ LET text == s.script.chunks[s.pos + 1]
         IN  calls' = [calls EXCEPT ![c] =
               IF ~ ChunkIsEnqueued(text) THEN @
               ELSE IF @.readPending
               THEN [@ EXCEPT !.inbox = ReadValue(text), !.readPending = FALSE]
               ELSE [@ EXCEPT !.queue = Enqueue(@, text)]]
      /\ UNCHANGED <<relayVars, chatVars, gatewayOf>>

\* start() of call c: the provider's stream is exhausted, controller.close()
PairRelayCloses(c) ==
  LET s == sessions[calls[c].chat]
  IN  /\ calls[c].relayPc = "running"
      /\ s.pos = Len(s.script.chunks)
      /\ ~ s.script.fails
      /\ calls' = [calls EXCEPT ![c] =
           [@ EXCEPT !.relayPc = "done",
                     !.closeRequested = TRUE,
                     !.streamState = IF calls[c].queue = <<>> THEN "closed" ELSE @,
                     !.inbox = IF calls[c].readPending THEN ReadDone ELSE @,
                     !.readPending = FALSE]]
      /\ UNCHANGED <<relayVars, chatVars, gatewayOf, sessions>>

\* start() of call c: the provider's stream throws, controller.error(error)
PairRelayErrors(c) ==
  LET s == sessions[calls[c].chat]
  IN  /\ calls[c].relayPc = "running"
      /\ s.pos = Len(s.script.chunks)
      /\ s.script.fails
      /\ calls' = [calls EXCEPT ![c] =
           [@ EXCEPT !.relayPc = "done",
                     !.queue = QueueAfterError(@),
                     !.streamState = "errored",
                     !.inbox = IF calls[c].readPending THEN ReadError ELSE @,
                     !.readPending = FALSE]]
      /\ UNCHANGED <<relayVars, chatVars, gatewayOf, sessions>>

\* generate of call c: sendMessage settles; response.text() is returned
PairGenerateSettles(c) ==
  LET s == sessions[calls[c].chat]
  IN  /\ calls[c].pc = "awaiting"
      /\ calls' = [calls EXCEPT ![c] =
           IF s.script.fails
           THEN [@ EXCEPT !.pc = "rejected"]
           ELSE [@ EXCEPT !.pc = "resolved", !.text = ResponseText(s.script.chunks)]]
      /\ UNCHANGED <<relayVars, chatVars, gatewayOf, sessions>>

\* the caller of call c reads its stream: reader.read()
PairReads(c) ==
  LET k == calls[c]
  IN  /\ k.pc = "streaming"
      /\ k.inbox = NoRead /\ ~ k.readPending
      /\ calls' = [calls EXCEPT ![c] =
           IF k.queue # <<>>
           THEN [@ EXCEPT !.inbox = ReadValue(Head(k.queue)),
                          !.queue = Tail(k.queue),
                          !.streamState = IF k.closeRequested /\ Tail(k.queue) = <<>>
                                          THEN "closed" ELSE @]
           ELSE IF k.streamState = "closed" THEN [@ EXCEPT !.inbox = ReadDone]
           ELSE IF k.streamState = "errored" THEN [@ EXCEPT !.inbox = ReadError]
           ELSE [@ EXCEPT !.readPending = TRUE]]
      /\ UNCHANGED <<relayVars, chatVars, gatewayOf, sessions>>

\* the caller of call c resumes on its settled read
PairResumes(c) ==
  LET k == calls[c]
  IN  /\ k.pc = "streaming"
      /\ k.inbox # NoRead
      /\ calls' = [calls EXCEPT ![c] =
           IF k.inbox.kind = "value"
           THEN [@ EXCEPT !.inbox = NoRead, !.out = Append(@, k.inbox.value)]
           ELSE IF k.inbox.kind = "done"
           THEN [@ EXCEPT !.inbox = NoRead, !.pc = "ended"]
           ELSE [@ EXCEPT !.inbox = NoRead, !.pc = "failed"]]
      /\ UNCHANGED <<relayVars, chatVars, gatewayOf, sessions>>

\* Both calls on one gateway instance, or each on its own.
PairInit ==
  /\ RelayInit /\ ChatUnused
  /\ gatewayOf \in {[c \in Calls |-> 1], [c \in Calls |-> c]}
  /\ calls = [c \in Calls |-> NewCall]
  /\ sessions = [s \in Calls |-> NoSession]

PairNext ==
  \/ \E c \in Calls : PairCalls(c)
  \/ \E c \in Calls : PairRelayTakesChunk(c)
  \/ \E c \in Calls : PairRelayCloses(c)
  \/ \E c \in Calls : PairRelayErrors(c)
  \/ \E c \in Calls : PairGenerateSettles(c)
  \/ \E c \in Calls : PairReads(c)
  \/ \E c \in Calls : PairResumes(c)

PairSpec == PairInit /\ [][PairNext]_vars

(***************************************************************************)
(* The server actions called on their own, with any input.                 *)
(***************************************************************************)
\* sendMessageAction(input) / sendMessageCompleteAction(input) is called
ActInvoke ==
  /\ pc = "idle"
  /\ invocations < MaxInvocations
  /\ \E a \in ActionEntries, t \in Transcripts, o \in OptionsSet, key \in BOOLEAN :
       /\ entry' = a
       /\ input' = [present |-> TRUE, messages |-> WithIds(t)]
       /\ options' = o
       /\ apiKeySet' = key
  /\ pc' = "try"
  /\ invocations' = invocations + 1
  /\ error' = NoError
  /\ result' = "none"
  /\ request' = NoRequest
  /\ callsThis' = 0
  /\ UNCHANGED <<relayInvocations, upstreamCalls, allValidated, pairVars, component, messages, inputValue, isLoading, streamingResponse, hs,
                 newHistory, assistantId, fullContent, nextId, actionError, script,
                 srcPos, relayPc, queue, streamState, closeRequested, readPending, inbox,
                 readLog, complete>>

\* the try block throws before the provider is called
ActTryThrows ==
  /\ pc = "try"
  /\ TryError(entry, input.messages, apiKeySet) # NoError
  /\ error' = TryError(entry, input.messages, apiKeySet)
  /\ pc' = "catch"
  /\ UNCHANGED <<entry, input, options, result, request, callsThis, invocations,
                 relayInvocations, upstreamCalls, allValidated, apiKeySet, pairVars, component, messages, inputValue, isLoading, streamingResponse, hs,
                 newHistory, assistantId, fullContent, nextId, actionError, script,
                 srcPos, relayPc, queue, streamState, closeRequested, readPending, inbox,
                 readLog, complete>>

\* the try block reaches sendMessageStream / sendMessage
ActCallsProvider ==
  /\ pc = "try"
  /\ TryError(entry, input.messages, apiKeySet) = NoError
  /\ request' = RequestOf(UseCaseOf(entry), input.messages, options)
  /\ upstreamCalls' = ProviderCalls(upstreamCalls)
  /\ callsThis' = ProviderCalls(callsThis)
  /\ relayInvocations' = relayInvocations + 1
  /\ pc' = "await"
  /\ UNCHANGED <<entry, input, options, error, result, invocations, allValidated,
                 apiKeySet, pairVars, component, messages, inputValue, isLoading, streamingResponse, hs,
                 newHistory, assistantId, fullContent, nextId, actionError, script,
                 srcPos, relayPc, queue, streamState, closeRequested, readPending, inbox,
                 readLog, complete>>

\* the provider call resolves: return stream / return response
ActReturns ==
  /\ pc = "await"
  /\ result' = IF entry = "sendMessageAction" THEN "stream" ELSE "text"
  /\ pc' = "resolved"
  /\ UNCHANGED <<entry, input, options, error, request, callsThis, invocations,
                 relayInvocations, upstreamCalls, allValidated, apiKeySet, pairVars, component, messages, inputValue, isLoading, streamingResponse, hs,
                 newHistory, assistantId, fullContent, nextId, actionError, script,
                 srcPos, relayPc, queue, streamState, closeRequested, readPending, inbox,
                 readLog, complete>>

\* the provider call rejects inside the try block
ActProviderRejects ==
  /\ pc = "await"
  /\ error' = Err("upstream")
  /\ pc' = "catch"
  /\ UNCHANGED <<entry, input, options, result, request, callsThis, invocations,
                 relayInvocations, upstreamCalls, allValidated, apiKeySet, pairVars, component, messages, inputValue, isLoading, streamingResponse, hs,
                 newHistory, assistantId, fullContent, nextId, actionError, script,
                 srcPos, relayPc, queue, streamState, closeRequested, readPending, inbox,
                 readLog, complete>>

\* catch (error): a ZodError is replaced, anything else is thrown on
ActCatches ==
  /\ pc = "catch"
  /\ error' = Rethrown(error)
  /\ pc' = "rejected"
  /\ UNCHANGED <<entry, input, options, result, request, callsThis, invocations,
                 relayInvocations, upstreamCalls, allValidated, apiKeySet, pairVars, component, messages, inputValue, isLoading, streamingResponse, hs,
                 newHistory, assistantId, fullContent, nextId, actionError, script,
                 srcPos, relayPc, queue, streamState, closeRequested, readPending, inbox,
                 readLog, complete>>

ActionNext ==
  \/ ActInvoke
  \/ ActTryThrows
  \/ ActCallsProvider
  \/ ActReturns
  \/ ActProviderRejects
  \/ ActCatches
  \/ Settle

ActionSpec == Init /\ [][ActionNext]_vars

(***************************************************************************)
(* Properties of the use case and the gateway (specification Spec).        *)
(***************************************************************************)
ValidationMessages ==
  {"Messages array cannot be empty", "At least one user message is required",
   "Message with id has empty content"}

\* The three conditions of the validator, stated on the text itself.
AllWhitespace(content) == \A k \in 1..Len(content) : content[k] \in Whitespace
NoTurns(in) == ~ in.present \/ Len(in.messages) = 0
SomeUserTurn(in) == \E i \in 1..Len(in.messages) : in.messages[i].role = "user"
SomeBlankTurn(in) == \E i \in 1..Len(in.messages) : AllWhitespace(in.messages[i].content)
IdOfFirstBlankTurn(in) ==
  LET i == CHOOSE k \in 1..Len(in.messages) :
             /\ AllWhitespace(in.messages[k].content)
             /\ \A j \in 1..(k - 1) : ~ AllWhitespace(in.messages[j].content)
  IN  in.messages[i].id
Acceptable(in) == ~ NoTurns(in) /\ SomeUserTurn(in) /\ ~ SomeBlankTurn(in)

InUseCase == pc # "idle" /\ entry \in UseCaseEntries
PastValidation == pc \in {"gateway", "send", "resolved"}
ValidationFailed == pc = "rejected" /\ error.message \in ValidationMessages

\* C1: execute and executeNonStreaming on an absent or empty transcript never get
\* past validation, reject with 'Messages array cannot be empty' and return
\* neither a stream nor a text.
C1_EmptyTranscriptRejected ==
  (InUseCase /\ NoTurns(input)) =>
    /\ pc \in {"validate", "rejected"}
    /\ result = "none"
    /\ pc = "rejected" => error = Err("Messages array cannot be empty")

C1_Witness ==
  /\ entry = "executeNonStreaming" /\ pc = "rejected" /\ ~ input.present
  /\ error.message = "Messages array cannot be empty"

\* C2: a non-empty transcript without a user turn never gets past validation and
\* is rejected with a validation error, whatever its turns contain.
C2_NoUserTurnRejected ==
  (InUseCase /\ ~ NoTurns(input) /\ ~ SomeUserTurn(input)) =>
    /\ pc \in {"validate", "rejected"}
    /\ pc = "rejected" => error.message \in ValidationMessages

C2_Witness ==
  /\ InUseCase /\ ValidationFailed /\ Len(input.messages) = 2
  /\ input.messages[1].role = "system" /\ input.messages[2].role = "assistant"
  /\ ~ SomeBlankTurn(input)

\* C3 as claimed: every transcript with a blank turn is rejected with an error
\* that references the id of its first blank turn, also when it has no user turn.
C3_BlankTurnIdAlways ==
  (InUseCase /\ pc = "rejected" /\ ~ NoTurns(input) /\ SomeBlankTurn(input)) =>
    error.id = IdOfFirstBlankTurn(input)

\* C3 amended: a transcript with a blank turn is always rejected; the error
\* references the id of the first blank turn when the transcript has a user turn,
\* and is 'At least one user message is required' (no id) when it has none.
C3_BlankTurnRejected ==
  (InUseCase /\ ~ NoTurns(input) /\ SomeBlankTurn(input)) =>
    /\ pc \in {"validate", "rejected"}
    /\ (pc = "rejected" /\ SomeUserTurn(input)) =>
         error = ErrId("Message with id has empty content", IdOfFirstBlankTurn(input))
    /\ (pc = "rejected" /\ ~ SomeUserTurn(input)) =>
         error = Err("At least one user message is required")

C3_Witness ==
  /\ InUseCase /\ pc = "rejected" /\ Len(input.messages) = 2
  /\ input.messages[1].role = "user" /\ input.messages[1].content = <<"a">>
  /\ input.messages[2].content = <<" ", " ">>
  /\ error.id = 2

\* C4: validation raises nothing exactly when the transcript is non-empty, has a
\* user turn and has no blank turn; in particular for one non-blank user turn.
C4_AcceptedIffWellFormed ==
  InUseCase =>
    /\ PastValidation => Acceptable(input)
    /\ ValidationFailed => ~ Acceptable(input)
    /\ (pc = "rejected" /\ ~ ValidationFailed) => Acceptable(input)

C4_Witness ==
  /\ InUseCase /\ pc = "gateway" /\ Len(input.messages) = 1
  /\ input.messages[1].role = "user" /\ input.messages[1].content = <<" ", "a", " ">>

\* C5: when validation of a transcript fails in execute or executeNonStreaming,
\* the gateway is not entered and nothing is sent upstream for that request.
C5_NoGatewayCallAfterFailedValidation ==
  (InUseCase /\ ~ Acceptable(input)) =>
    /\ ~ PastValidation
    /\ callsThis = 0
    /\ request = NoRequest
    /\ result = "none"

C5_Witness ==
  /\ InUseCase /\ ValidationFailed /\ input.present /\ Len(input.messages) = 2
  /\ callsThis = 0 /\ upstreamCalls = 1 /\ invocations = 2

\* C6: an invocation of the relay on a validated transcript makes exactly one
\* provider call, and N such invocations make N provider calls: nothing is cached.
C6_OneUpstreamCallPerInvocation ==
  /\ (pc \in {"resolved", "rejected"} /\ Acceptable(input)) => callsThis = 1
  /\ (pc = "idle" /\ allValidated) => upstreamCalls = relayInvocations

C6_Witness ==
  pc = "idle" /\ allValidated /\ relayInvocations = MaxInvocations /\ upstreamCalls = MaxInvocations

(***************************************************************************)
(* Properties of the stream and its consumers (specification StreamSpec).  *)
(***************************************************************************)
\* The chunks of a reply that carry text.
NonEmptyChunks(chunks) == SelectSeq(chunks, LAMBDA t : Len(t) > 0)

\* The consumer has left its read loop after the stream ended normally.
ConsumedToEnd == hs = "idle" /\ streamState = "closed"

\* The assistant text the component shows.
DisplayedText ==
  IF component = "ExampleChatComponent" /\ hs = "reading"
  THEN streamingResponse
  ELSE messages[Len(messages)].content

HelloWorld == <<"H", "e", "l", "l", "o", " ", "w", "o", "r", "l", "d">>

\* C7: with a deterministic provider, the fragments read from the stream of
\* generateStream, concatenated in order, are the string generate returns for
\* the same transcript and options.
C7_StreamConcatEqualsGenerate ==
  (ConsumedToEnd /\ complete.state = "text") => ConcatAll(readLog) = complete.text

C7_Witness ==
  /\ ConsumedToEnd /\ complete.state = "text"
  /\ script.chunks = <<Hel, Lo>> /\ readLog = <<Hel, Lo>>
  /\ complete.text = <<"H", "e", "l", "l", "o">>

\* C8 as claimed: when the provider completes normally the consumer has read
\* exactly the provider's fragments, none dropped.
C8_EveryFragmentRelayed == ConsumedToEnd => readLog = script.chunks

\* C8 amended: when the provider completes normally the consumer has read
\* exactly the provider's fragments that carry text, verbatim and in the
\* provider's order; fragments whose text is empty are skipped by the relay.
C8_NonEmptyFragmentsRelayed == ConsumedToEnd => readLog = NonEmptyChunks(script.chunks)

C8_Witness ==
  /\ ConsumedToEnd /\ script.chunks = <<Hel, <<>>, Lo>> /\ readLog = <<Hel, Lo>>

\* C9: when the provider yields fragments and then fails, the consumer has read
\* every fragment yielded before the failure by the time its read reports the
\* failure, under every interleaving of the relay's loop and the reads.
C9_FragmentsBeforeFailureObserved ==
  inbox.kind = "error" => readLog = NonEmptyChunks(script.chunks)

\* C10: while the consumer reads, and after the stream has ended, the assistant
\* text shown is the concatenation of the fragments read so far in arrival
\* order; at the end it is the whole reply ('Hel', 'lo', ' world' give 'Hello world').
C10_DisplayedTextIsSumOfFragments ==
  /\ hs = "reading" => DisplayedText = ConcatAll(readLog)
  /\ ConsumedToEnd =>
       /\ DisplayedText = ConcatAll(readLog)
       /\ DisplayedText = ConcatAll(script.chunks)
       /\ script.chunks = <<Hel, Lo, World>> => DisplayedText = HelloWorld

C10_Witness ==
  /\ component = "ChatInterface" /\ ConsumedToEnd
  /\ script.chunks = <<Hel, Lo, World>> /\ Len(readLog) = 3
  /\ DisplayedText = HelloWorld

(***************************************************************************)
(* Properties of construction, request building and error handling.       *)
(***************************************************************************)
\* C11: with no API key argument and GEMINI_API_KEY not set, constructing the
\* relay fails with the configuration error: the request ends with that error,
\* no stream is produced and the provider is never called.
C11_NoCredentialNoRelay ==
  ~ apiKeySet =>
    /\ streamState = "none" /\ relayPc = "none" /\ hs # "reading"
    /\ upstreamCalls = 0 /\ request = NoRequest
    /\ actionError \in {NoError, Err("GEMINI_API_KEY is not set")}
    /\ (hs = "idle" /\ newHistory # <<>>) => actionError = Err("GEMINI_API_KEY is not set")

C11_Witness ==
  /\ ~ apiKeySet /\ hs = "idle" /\ newHistory # <<>>
  /\ actionError = Err("GEMINI_API_KEY is not set")
  /\ upstreamCalls = 0 /\ streamState = "none"

\* The turns of a transcript with role 'system', and the text of the first of them.
SystemTurns(msgs) == {i \in 1..Len(msgs) : msgs[i].role = "system"}
FirstSystemText(msgs) ==
  msgs[CHOOSE i \in SystemTurns(msgs) : \A j \in SystemTurns(msgs) : i <= j].content
TranscriptInstruction(msgs) ==
  IF SystemTurns(msgs) = {} THEN Unset(<<>>) ELSE Set(FirstSystemText(msgs))

\* C12 as stated: the first system turn is the system instruction whenever one
\* exists, options.systemPrompt only when the transcript has none.
C12_SystemTurnBeforeOption ==
  request.sent =>
    request.config.systemInstruction =
      IF SystemTurns(input.messages) # {}
      THEN Set(FirstSystemText(input.messages))
      ELSE options.systemPrompt

\* C12: the system instruction sent upstream is options.systemPrompt whenever it
\* is given (the empty string included); the text of the transcript's first
\* system turn is the fallback, and with neither no instruction is sent.
C12_OptionBeforeSystemTurn ==
  request.sent =>
    request.config.systemInstruction =
      IF options.systemPrompt.set
      THEN options.systemPrompt
      ELSE TranscriptInstruction(input.messages)

C12_Witness ==
  /\ request.sent
  /\ SystemTurns(input.messages) # {} /\ options.systemPrompt.set
  /\ FirstSystemText(input.messages) # options.systemPrompt.value
  /\ request.config.systemInstruction = options.systemPrompt

\* The turns with role user or assistant, in transcript order.
Conversation(msgs) == SelectSeq(msgs, LAMBDA m : m.role \in {"user", "assistant"})
UserTurns(msgs) == {i \in 1..Len(msgs) : msgs[i].role = "user"}
FinalUserText(msgs) ==
  msgs[CHOOSE i \in UserTurns(msgs) : \A j \in UserTurns(msgs) : j <= i].content

\* C13 as stated: for a validated transcript the prompt is the text of the
\* final user turn, and the history holds no system turn and only user/model
\* roles in transcript order.
C13_PromptIsFinalUserTurn ==
  (request.sent /\ entry \in UseCaseEntries) =>
    /\ request.prompt = FinalUserText(input.messages)
    /\ Len(request.history) = Len(Conversation(input.messages)) - 1
    /\ \A i \in 1..Len(request.history) :
         request.history[i].role \in {"user", "model"}

\* C20 as stated: an unset temperature, maximum output size, top-p or system
\* prompt puts no value into the upstream request, and a set one is forwarded.
C20_UnsetFieldsLeftToProvider ==
  (request.sent /\ SystemTurns(input.messages) = {}) =>
    /\ request.config.temperature = options.temperature
    /\ request.config.maxOutputTokens = options.maxTokens
    /\ request.config.topP = options.topP
    /\ request.config.systemInstruction = options.systemPrompt

\* C20: every field the caller sets is forwarded unchanged (0 and the empty
\* string included); an unset top-p puts no value into the request and an unset
\* system prompt leaves the instruction to the transcript's first system turn,
\* but an unset temperature, maximum output size or model is sent as the
\* relay's own default (0.7, 2048, 'gemini-2.0-flash-exp').
C20_SetForwardedUnsetDefaulted ==
  request.sent =>
    /\ request.config.temperature =
         IF options.temperature.set THEN options.temperature ELSE Set(7)
    /\ request.config.maxOutputTokens =
         IF options.maxTokens.set THEN options.maxTokens ELSE Set(2048)
    /\ request.config.model =
         IF options.model.set THEN options.model ELSE Set("gemini-2.0-flash-exp")
    /\ request.config.topP = options.topP
    /\ options.systemPrompt.set => request.config.systemInstruction = options.systemPrompt
    /\ (~ options.systemPrompt.set /\ SystemTurns(input.messages) = {})
         => ~ request.config.systemInstruction.set

C20_Witness ==
  /\ request.sent
  /\ options.temperature = Set(0) /\ request.config.temperature = Set(0)
  /\ options.topP = Set(0) /\ request.config.topP = Set(0)
  /\ request.config.systemInstruction = Set(<<>>)

\* C14: an upstream failure is always surfaced and never retried.  A provider
\* call that rejects makes the request fail with that error and no stream; a
\* provider stream that throws after the stream was handed out errors the
\* stream (it is never closed normally), the consumer's next read rejects and
\* the consumer ends in its error path; the non-streaming operation rejects;
\* and one request never makes a second provider call.
C14_UpstreamFailureSurfaced ==
  /\ (script.fails /\ relayPc = "done") =>
       /\ streamState = "errored" /\ ~ closeRequested /\ queue = <<>>
       /\ inbox.kind # "done" /\ ~ readPending
       /\ hs = "idle" => (actionError = Err("upstream") /\ ~ isLoading)
  /\ (script.fails /\ complete # NotCompleted) => complete.state = "rejected"
  /\ (hs = "idle" /\ actionError = Err("upstream") /\ streamState = "none") =>
       (upstreamCalls = 1 /\ relayPc = "none" /\ readLog = <<>>)
  /\ complete = NotCompleted => upstreamCalls <= 1
  /\ upstreamCalls <= 2
  /\ srcPos <= Len(script.chunks)

C14_Witness ==
  /\ script.fails /\ streamState = "errored" /\ hs = "idle"
  /\ readLog # <<>> /\ actionError = Err("upstream")
  /\ complete.state = "rejected"

\* C15 as stated: an empty completion is an upstream error: the non-streaming
\* operation never returns an empty string, and a stream whose provider reply
\* held no text never ends normally.
C15_EmptyCompletionIsError ==
  /\ complete.state = "text" => complete.text # <<>>
  /\ (relayPc = "done" /\ ResponseText(script.chunks) = <<>>) => streamState = "errored"

\* The fragments the relay's loop has taken from the provider so far.
Taken == SubSeq(script.chunks, 1, srcPos)

\* C16 as stated: the relay takes from the provider only on the consumer's
\* demand: the non-empty fragments taken exceed the fragments read by at most
\* two (one queued, one in a settled read), and with nothing read the relay
\* never reaches the end of a reply of more than two fragments.
C16_RelayWaitsForConsumer ==
  /\ Len(NonEmptyChunks(Taken)) - Len(readLog) <= 2
  /\ (relayPc = "done" /\ readLog = <<>>) => Len(NonEmptyChunks(script.chunks)) <= 2

\* The placeholder of the current submission is in the transcript.
HasPlaceholder == \E i \in 1..Len(messages) : messages[i].id = assistantId

\* C18 as stated: in ChatInterface the placeholder assistant turn is in the
\* transcript only once the call that opens the stream has returned a stream,
\* and a request that opened no stream leaves no placeholder.
C18_PlaceholderOnlyAfterOpen ==
  (component = "ChatInterface" /\ HasPlaceholder) => streamState # "none"

\* The transcript changed in nothing but the text of its last turn, whose id is id.
OnlyLastTextChanged(old, new, id) ==
  /\ Len(new) = Len(old)
  /\ \A i \in 1..(Len(old) - 1) : new[i] = old[i]
  /\ Len(old) > 0 =>
       /\ new[Len(old)].id = old[Len(old)].id /\ new[Len(old)].role = old[Len(old)].role
       /\ new[Len(old)].content # old[Len(old)].content =>
            (old[Len(old)].id = id /\ old[Len(old)].role = "assistant")

\* C19: in ChatInterface, while the reply is streaming a step changes nothing
\* in the transcript but the text of the last turn, which is the in-progress
\* assistant turn; the step that sees the normal end of the stream and every
\* step after it leave the transcript unchanged.
C19_OnlyInProgressTurnChanges ==
  [][component = "ChatInterface" =>
       /\ (hs = "reading" /\ hs' = "reading") =>
            OnlyLastTextChanged(messages, messages', assistantId)
       /\ (hs = "reading" /\ inbox.kind = "done") => messages' = messages
       /\ (hs = "idle" /\ streamState = "closed") => messages' = messages]_vars

C19_Witness ==
  /\ component = "ChatInterface" /\ hs = "idle" /\ streamState = "closed"
  /\ Len(readLog) >= 2 /\ Len(messages) >= 3
  /\ messages[Len(messages)].id = assistantId
  /\ messages[Len(messages)].content = HelloWorld
  /\ complete # NotCompleted

\* s is an initial part of t.
IsPrefix(s, t) == Len(s) <= Len(t) /\ SubSeq(t, 1, Len(s)) = s

\* What call c's caller is owed: the fragments the relay passes on of the
\* provider's reply to c's own request.
OwnFragments(c) == NonEmptyChunks(calls[c].reply.chunks)

\* C17: two calls running in parallel, on one gateway or on two, are
\* independent under every interleaving: each call's upstream request is the
\* one built from its own transcript and options, each caller reads, in order,
\* fragments of the reply to its own request (all of them when its stream
\* ends normally), generate returns the text of its own reply, and a call
\* fails only when its own upstream failed.
C17_ConcurrentCallsIndependent ==
  \A c \in Calls :
    /\ calls[c].pc # "idle" =>
         /\ calls[c].request = UpstreamRequest(calls[c].messages, calls[c].options)
         /\ calls[c].chat \notin {calls[d].chat : d \in Calls \ {c}}
    /\ IsPrefix(calls[c].out, OwnFragments(c))
    /\ calls[c].inbox.kind = "value" =>
         IsPrefix(Append(calls[c].out, calls[c].inbox.value), OwnFragments(c))
    /\ calls[c].pc = "ended" => (calls[c].out = OwnFragments(c) /\ ~ calls[c].reply.fails)
    /\ calls[c].pc = "failed" => calls[c].reply.fails
    /\ calls[c].pc = "resolved" =>
         (calls[c].text = ConcatAll(calls[c].reply.chunks) /\ ~ calls[c].reply.fails)
    /\ calls[c].pc = "rejected" => calls[c].reply.fails

C17_Witness ==
  /\ gatewayOf[1] = gatewayOf[2]
  /\ calls[1].pc = "streaming" /\ calls[2].pc = "streaming"
  /\ calls[1].reply # calls[2].reply /\ calls[1].request # calls[2].request
  /\ calls[1].out # <<>> /\ calls[2].out # <<>>
  /\ calls[1].relayPc = "running" /\ calls[2].relayPc = "running"

\* C21: generate performs the same request as generateStream: on every
\* transcript and options both fail with the same error before any upstream
\* call, or both send the same model name, system instruction, generation
\* configuration, history and prompt.
C21_GenerateSameRequestAsStream ==
  (pc # "idle" /\ input.present) =>
    /\ GenerateCheck(input.messages) = GatewayCheck(input.messages)
    /\ GatewayCheck(input.messages) = NoError =>
         GenerateRequest(input.messages, options) = UpstreamRequest(input.messages, options)
    /\ request.sent => request = UpstreamRequest(input.messages, options)
    /\ (pc = "rejected" /\ error.message \in {"No messages provided", "Message content is empty"})
         => (error = GatewayCheck(input.messages) /\ ~ request.sent)

C21_Witness ==
  /\ entry = "generate" /\ pc = "resolved" /\ request.sent
  /\ request.history # <<>> /\ request.config.systemInstruction.set
  /\ request.config.temperature = Set(0)

\* C26: for a transcript validateInput accepts, the gateway's defensive checks
\* never fire: with the system turns removed the list is non-empty and its
\* last message has text, the use case never rejects with 'No messages
\* provided' or 'Message content is empty', and the upstream call is reached.
C26_GatewayChecksNeverFire ==
  InUseCase =>
    /\ pc = "rejected" =>
         error.message \notin {"No messages provided", "Message content is empty"}
    /\ PastValidation =>
         /\ Conversation(input.messages) # <<>>
         /\ Conversation(input.messages)[Len(Conversation(input.messages))].content # <<>>
         /\ pc = "resolved" => request.sent
    /\ (Acceptable(input) /\ pc = "rejected") => (error = Err("upstream") /\ request.sent)

C26_Witness ==
  /\ InUseCase /\ pc = "resolved" /\ request.sent
  /\ SystemTurns(input.messages) # {}
  /\ input.messages[Len(input.messages)].role = "system"

\* The input does not conform to SendMessageInputSchema.
SchemaInvalid(msgs) == msgs = <<>> \/ \E i \in 1..Len(msgs) : msgs[i].content = <<>>

\* The messages an action's schema failure can carry.
RECURSIVE EmptyContentIssues(_)
EmptyContentIssues(n) ==
  IF n = 1 THEN "Message content cannot be empty"
  ELSE "Message content cannot be empty, " \o EmptyContentIssues(n - 1)
SchemaFailureTexts ==
  {"Validation error: At least one message is required"}
    \cup {"Validation error: " \o EmptyContentIssues(n) : n \in 1..MaxMessages}

\* C22: neither action swallows an error.  An action resolves only when the
\* schema, the construction of the gateway and the use case's validation all
\* passed and the provider call succeeded; otherwise it rejects with no
\* result: with a message starting 'Validation error: ' for a schema failure,
\* and with the very error of the failing stage in every other case.
C22_ActionsNeverSwallow ==
  (entry \in ActionEntries /\ pc \in {"resolved", "rejected"}) =>
    /\ (pc = "resolved") = (result # "none")
    /\ (pc = "rejected") = (error # NoError)
    /\ pc = "resolved" =>
         /\ ~ SchemaInvalid(input.messages) /\ apiKeySet /\ Acceptable(input)
         /\ request.sent /\ callsThis = 1
    /\ pc = "rejected" =>
         IF SchemaInvalid(input.messages)
         THEN error.message \in SchemaFailureTexts /\ ~ request.sent
         ELSE IF ~ apiKeySet
         THEN error = Err("GEMINI_API_KEY is not set") /\ ~ request.sent
         ELSE IF ~ Acceptable(input)
         THEN error = ValidateInput(input) /\ ~ request.sent
         ELSE error = Err("upstream") /\ request.sent

C22_Witness ==
  /\ entry = "sendMessageCompleteAction" /\ pc = "rejected"
  /\ Len(input.messages) = 2
  /\ error.message =
       "Validation error: Message content cannot be empty, Message content cannot be empty"

\* C25: the stream reaches exactly one terminal state.  It is never both
\* closed (or asked to close) and errored; once the relay's loop is over it
\* takes no further fragment and enqueues none; a closed or errored stream
\* stays so, with an empty queue, and settles no further read with a
\* fragment; and after the consumer has left its read loop it reads nothing.
C25_OneTerminalState ==
  [][/\ ~ (closeRequested' /\ streamState' = "errored")
     /\ relayPc = "done" =>
          /\ relayPc' = "done" /\ srcPos' = srcPos /\ closeRequested' = closeRequested
          /\ Len(queue') <= Len(queue)
     /\ streamState \in {"closed", "errored"} =>
          /\ streamState' = streamState /\ queue' = <<>> /\ relayPc' = "done"
          /\ inbox'.kind = "value" => inbox' = inbox
     /\ (hs = "idle" /\ streamState # "none") => (readLog' = readLog /\ inbox' = NoRead)
    ]_vars

C25_Witness ==
  /\ streamState = "closed" /\ relayPc = "done" /\ closeRequested
  /\ hs = "idle" /\ Len(readLog) = 3 /\ queue = <<>> /\ inbox = NoRead
  /\ complete # NotCompleted

(***************************************************************************)
(* Properties of ChatInterface over several submissions.                   *)
(***************************************************************************)
\* The step ends a submission in ChatInterface's catch block.
FailureStep == hs # "idle" /\ hs' = "idle" /\ inbox.kind # "done"

\* C23: when a submission of ChatInterface fails, by a rejected action or by
\* an error of the stream, exactly one system turn with the error notice is
\* appended at the end; every turn before it is kept as it was, the user turn
\* just submitted and the pending assistant turn with its partial text among
\* them.
C23_FailureAppendsOneNotice ==
  [][FailureStep =>
       /\ Len(messages') = Len(messages) + 1
       /\ SubSeq(messages', 1, Len(messages)) = messages
       /\ messages'[Len(messages')].role = "system"
       /\ messages'[Len(messages')].content = ErrorNotice
       /\ messages'[Len(messages) - 1] = newHistory[Len(newHistory)]
       /\ messages'[Len(messages) - 1].role = "user"
       /\ messages'[Len(messages)].id = assistantId
       /\ messages'[Len(messages)].role = "assistant"
       /\ messages'[Len(messages)].content = fullContent
       /\ actionError' # NoError /\ ~ isLoading'
    ]_vars

C23_Witness ==
  /\ hs = "idle" /\ streamState = "errored" /\ readLog = <<Hel>>
  /\ Len(messages) = 3
  /\ messages[2].role = "assistant" /\ messages[2].content = Hel
  /\ messages[3].role = "system" /\ messages[3].content = ErrorNotice

\* C24 as stated: every transcript ChatInterface passes to sendMessageAction
\* holds only turns with non-empty text, whatever the earlier submissions left
\* in the history.
C24_RequestsCarryNoEmptyTurn ==
  (component = "ChatInterface" /\ hs = "calling") =>
    \A i \in 1..Len(newHistory) : newHistory[i].content # <<>>

\* C27: ChatInterface has at most one generation in flight.  isLoading is true
\* exactly from the start of a submission to its end; while it is true no
\* step starts another submission: no user turn is added, the captured
\* history and the placeholder's id stay, and the provider is called at most
\* once, by the pending action; and with blank input nothing is submitted.
C27_OneGenerationInFlight ==
  [][/\ isLoading = (hs # "idle")
     /\ upstreamCalls' <= Submitted(messages')
     /\ isLoading =>
          /\ newHistory' = newHistory /\ assistantId' = assistantId
          /\ Submitted(messages') = Submitted(messages)
          /\ upstreamCalls' # upstreamCalls => (hs = "calling" /\ upstreamCalls' = upstreamCalls + 1)
          /\ Len(messages') # Len(messages) => ~ isLoading'
     /\ (~ isLoading /\ Trim(inputValue) = <<>>) =>
          /\ messages' = messages /\ upstreamCalls' = upstreamCalls
          /\ hs' = "idle" /\ ~ isLoading'
    ]_vars

C27_Witness ==
  /\ isLoading /\ hs = "reading" /\ Submitted(messages) = 2 /\ upstreamCalls = 2
  /\ inputValue = <<>> /\ readLog # <<>>

\* The notice appears in the request as the system instruction, in the
\* history or as the prompt.
NoticeSentUpstream ==
  \/ request.config.systemInstruction = Set(ErrorNotice)
  \/ \E i \in 1..Len(request.history) : request.history[i].text = ErrorNotice
  \/ request.prompt = ErrorNotice

\* C29 as stated: the text of an error notice is never sent upstream, neither
\* as the system instruction nor in the history nor as the prompt.
C29_NoticeNeverSentUpstream == request.sent => ~ NoticeSentUpstream

\* C28: every submission a component starts finishes, given that the action
\* call settles and the stream ends or errors: isLoading, once true, becomes
\* false again, after a normal end, a rejected action and a mid-stream error
\* alike.
C28_SubmissionEventuallyFinishes == isLoading ~> (~ isLoading /\ hs = "idle")

C28_Witness ==
  /\ ~ isLoading /\ hs = "idle" /\ streamState = "errored"
  /\ actionError = Err("upstream") /\ readLog = <<Hel, Lo>>

====
